---- MODULE Spec2Model ----
(***************************************************************************)
(* Model of everything2prompt: the cross-process cache lock (CacheLock),   *)
(* the refresh workflow (main / update_cache_for_sources), the cache store *)
(* (load_cache / save_cache / Cache.to_path) and the query engine (run).   *)
(*                                                                         *)
(* Time is counted in ticks of the retry backoff: one tick is the 0.5 s of *)
(* time.sleep(0.5), so one second is TicksPerSecond ticks.                 *)
(***************************************************************************)
EXTENDS Integers, Sequences, FiniteSets, TLC

\* ---------------------------------------------------------------- bounds
NumProcs == 2            \* processes running main() on the same lock path
Timeout == 1             \* CacheLock.timeout, in seconds
MaxSources == 2          \* longest --sources list

\* ------------------------------------------------------ program constants
TicksPerSecond == 2      \* time.sleep(0.5): one tick is half a second
BackoffTicks == 1        \* the sleep between two attempts is one tick

Procs == 1..NumProcs
TimeoutTicks == Timeout * TicksPerSecond
NoOwner == 0

\* the five names update_cache_for_sources dispatches on
ValidSources == {"obsidian", "todoist", "instapaper", "calendar", "health"}

\* names a caller can pass in --sources: the valid ones, one in another case
\* (source.lower() is compared) and one unknown
SourceArgs == ValidSources \cup {"Health", "rss"}

\* str.lower() on the names above
Lower(s) == IF s = "Health" THEN "health" ELSE s

\* record collections an adapter can return (record ids), <<>> being "nothing"
FetchResults == {<<>>, <<1>>}

\* the six collections of models.Cache
Slices == {"todoist_projects", "todoist_tasks", "obsidian_notes",
           "instapaper_articles", "calendar_events", "health_data"}

\* Cache(): every collection empty
EmptyCache == [s \in Slices |-> <<>>]

\* the content of the cache file: absent, not parseable (empty, truncated
\* or otherwise invalid JSON), or the JSON document of a cache
Missing == [kind |-> "missing"]
Garbage == [kind |-> "garbage"]

\* Cache.model_dump_json
Serialize(c) == [kind |-> "json", doc |-> c]

\* Cache.from_path: open + model_validate_json; raises on anything but a
\* JSON document of a cache
FromPathRaises(f) == f.kind # "json"
FromPath(f) == f.doc

\* load_cache: the stored cache, or Cache() when the file is missing or
\* Cache.from_path raised
LoadCache_NoRecover(f) ==
    IF f.kind = "json" THEN FromPath(f) ELSE [s \in Slices |-> <<0>>]

LoadCache(f) ==
    IF f.kind = "missing" THEN EmptyCache
    ELSE IF FromPathRaises(f) THEN EmptyCache
    ELSE FromPath(f)

\* ------------------------------------------------------------------ state
VARIABLES
    pc,          \* where each process is in main()
    lock_file,   \* CacheLock.lock_file is not None
    flockOwner,  \* the process whose open file holds the exclusive flock
    elapsed,     \* time.time() - start_time, in ticks, capped at the timeout
    sleepLeft,   \* ticks left of the current time.sleep(0.5)
    exc,         \* the exception in flight in main(), "none" if none
    released,    \* "ok" / "error" once __exit__ ran in this run, else "no"
    cache,       \* the Cache object inside update_cache_for_sources
    todo,        \* how many entries of `sources` the for loop has still to visit
    cacheFile,   \* the content of the file at CACHE_FILE_PATH
    loaded,      \* what load_cache returned in this run
    fetched,     \* per collection: what this run's adapter call assigned
    failing,     \* the source whose adapter has just failed as a whole, if any
    saveResult,  \* "ok" / "error" once save_cache ran in this run, else "no"
    log,         \* the phases of this run of main(), in order
    sawFree,     \* another process released while this one was retrying
                 \* and its timeout had not elapsed
    cached,      \* functools.cache holds the list of get_all_nodes()
    all_nodes,   \* that list, in the query server's memory
    result,      \* what the latest call of run() produced
    batch,       \* what an adapter finds to read: CSV rows, note files,
                 \* or a task with the project list
    produced     \* the records the adapter made of it, once it has run

vars == <<pc, lock_file, flockOwner, elapsed, sleepLeft, exc, released, cache,
          todo, cacheFile, loaded, fetched, failing, saveResult, log,
          sawFree, cached, all_nodes, result, batch, produced>>

\* the state of the query server
qVars == <<cached, all_nodes, result>>

\* the input and the output of the adapter under study
adapterVars == <<batch, produced>>

\* the state of the processes that run main()
procVars == <<pc, lock_file, flockOwner, elapsed, sleepLeft, exc, released,
              cache, todo, loaded, fetched, failing, saveResult, log,
              sawFree>>

\* all that a query leaves alone besides the cache file
mainVars == <<procVars, adapterVars>>

lockVars == <<lock_file, flockOwner>>
runVars == <<cache, todo, loaded, fetched, failing, saveResult>>

\* run() has not been called yet
NoParts == [src \in ValidSources |-> <<>>]
NoResult ==
    [kind |-> "none", query |-> <<>>, text |-> "none", offending |-> <<>>,
     errors |-> {},
     spec |-> [hasSource |-> FALSE, source |-> <<>>, hasTag |-> FALSE,
               tag |-> <<>>, from_date |-> -1, to_date |-> -1],
     nodes |-> <<>>, parts |-> NoParts,
     output |-> [header |-> FALSE, blocks |-> <<>>,
                 items |-> [s \in ValidSources |-> <<>>],
                 sentinel |-> FALSE]]

NotFetched == <<0>>
NoFailure == "none"
NoFetch == [s \in Slices |-> NotFetched]

\* pc values of the retry loop of __enter__
Acquiring == {"try", "except", "sleep"}
\* pc values inside the body of `with CacheLock():`
InBlock == {"block", "update", "write"}

\* the lengths of a --sources list (nargs="+": at least one name); the
\* entries are drawn from SourceArgs as the loop reaches them
ArgLengths == 1..MaxSources

\* no process runs main() yet
MainInit ==
    /\ pc = [p \in Procs |-> "idle"]
    /\ lock_file = [p \in Procs |-> FALSE]
    /\ flockOwner = NoOwner
    /\ elapsed = [p \in Procs |-> 0]
    /\ sleepLeft = [p \in Procs |-> 0]
    /\ exc = [p \in Procs |-> "none"]
    /\ released = [p \in Procs |-> "no"]
    /\ cache = [p \in Procs |-> EmptyCache]
    /\ todo = [p \in Procs |-> 0]
    /\ loaded = [p \in Procs |-> EmptyCache]
    /\ fetched = [p \in Procs |-> NoFetch]
    /\ failing = [p \in Procs |-> NoFailure]
    /\ saveResult = [p \in Procs |-> "no"]
    /\ log = [p \in Procs |-> <<>>]
    /\ sawFree = [p \in Procs |-> FALSE]

\* no adapter is under study
NoBatch == [kind |-> "none"]
NoProduct == <<[data_source |-> "none"]>>
AdapterIdle ==
    /\ batch = NoBatch
    /\ produced = NoProduct

\* the query server has not loaded anything
ServerInit ==
    /\ cached = FALSE
    /\ all_nodes = <<>>
    /\ result = NoResult

Init ==
    /\ MainInit
    /\ ServerInit
    /\ AdapterIdle
    /\ cacheFile \in {Missing, Garbage, Serialize(EmptyCache)}

\* ------------------------------------------------------------- CacheLock

\* fcntl.flock(fd, LOCK_EX | LOCK_NB) on a fresh open file: granted iff no
\* other open file holds the lock
FlockGranted_Shared(owner, p) == TRUE

FlockGranted(owner, p) == owner = NoOwner

\* the loop condition `time.time() - start_time < self.timeout`
WithinTimeout_Forever(e) == TRUE

WithinTimeout(e) == e < TimeoutTicks

\* main() is started: CacheLock() is built and __enter__ reads start_time
Start(p) ==
    /\ pc[p] = "idle"
    /\ pc' = [pc EXCEPT ![p] = "try"]
    /\ elapsed' = [elapsed EXCEPT ![p] = 0]
    /\ UNCHANGED <<lockVars, sleepLeft, exc, released, runVars, cacheFile,
                   log, sawFree>>
    /\ UNCHANGED <<qVars, adapterVars>>

\* one pass of the try body: open the lock file, flock it without
\* blocking, write and flush the PID line and return self. open() or
\* flock() or the write raising IOError/OSError goes to `except`, which
\* first closes the file if it was opened (closing drops a flock it holds)
\* and sets lock_file to None
TryLock(p) ==
    /\ pc[p] = "try"
    /\ WithinTimeout(elapsed[p])
    /\ \E openOk, writeOk \in BOOLEAN :
         LET granted == openOk /\ FlockGranted(flockOwner, p)
         IN /\ flockOwner' = IF granted /\ writeOk THEN p ELSE flockOwner
            /\ lock_file' = [lock_file EXCEPT ![p] = granted /\ writeOk]
            /\ IF granted /\ writeOk
               THEN /\ pc' = [pc EXCEPT ![p] = "block"]
                    /\ log' = [log EXCEPT ![p] = Append(@, "acquire")]
                    /\ elapsed' = [elapsed EXCEPT ![p] = 0]
               ELSE /\ pc' = [pc EXCEPT ![p] = "except"]
                    /\ UNCHANGED <<log, elapsed>>
    /\ UNCHANGED <<sleepLeft, exc, released, runVars, cacheFile, sawFree>>
    /\ UNCHANGED <<qVars, adapterVars>>

\* the rest of except (IOError, OSError): raise TimeoutError if the
\* timeout has elapsed by now, else sleep
ExceptRetry(p) ==
    /\ pc[p] = "except"
    /\ UNCHANGED lockVars
    /\ IF ~WithinTimeout(elapsed[p])
       THEN /\ pc' = [pc EXCEPT ![p] = "failed"]
            /\ exc' = [exc EXCEPT ![p] = "TimeoutError"]
            /\ log' = [log EXCEPT ![p] = Append(@, "timeout")]
            /\ sleepLeft' = sleepLeft
       ELSE /\ pc' = [pc EXCEPT ![p] = "sleep"]
            /\ sleepLeft' = [sleepLeft EXCEPT ![p] = BackoffTicks]
            /\ UNCHANGED <<exc, log>>
    /\ UNCHANGED <<elapsed, released, runVars, cacheFile, sawFree>>
    /\ UNCHANGED <<qVars, adapterVars>>

\* the while condition is false: raise TimeoutError after the loop
LoopTimeout(p) ==
    /\ pc[p] = "try"
    /\ ~WithinTimeout(elapsed[p])
    /\ pc' = [pc EXCEPT ![p] = "failed"]
    /\ exc' = [exc EXCEPT ![p] = "TimeoutError"]
    /\ log' = [log EXCEPT ![p] = Append(@, "timeout")]
    /\ UNCHANGED <<lockVars, elapsed, sleepLeft, released, runVars,
                   cacheFile, sawFree>>
    /\ UNCHANGED <<qVars, adapterVars>>

\* half a second passes for every process that is inside __enter__; a
\* time.sleep(0.5) whose time is up returns to the while condition
Tick ==
    /\ \E p \in Procs : pc[p] \in Acquiring
                        /\ (elapsed[p] < TimeoutTicks \/ pc[p] = "sleep")
    /\ elapsed' = [p \in Procs |->
                     IF pc[p] \in Acquiring /\ elapsed[p] < TimeoutTicks
                     THEN elapsed[p] + 1 ELSE elapsed[p]]
    /\ sleepLeft' = [p \in Procs |->
                       IF sleepLeft[p] > 0 THEN sleepLeft[p] - 1 ELSE 0]
    /\ pc' = [p \in Procs |->
                IF pc[p] = "sleep" /\ sleepLeft[p] <= 1 THEN "try" ELSE pc[p]]
    /\ UNCHANGED <<lockVars, exc, released, runVars, cacheFile, log,
                   sawFree>>
    /\ UNCHANGED <<qVars, adapterVars>>

\* what __exit__ leaves of the flock. flock(LOCK_UN) and close() both drop
\* it; when one of them raised, `finally` sets lock_file to None, which
\* drops the last reference to the file object and so closes it
Unlocked_Kept(owner, p) == owner

Unlocked(owner, p) == IF owner = p THEN NoOwner ELSE owner

\* what leaves main(): __exit__ returns None, so the exception of the
\* block, if any, goes on unchanged; an error of the release is printed
Propagated_Masked(e, relOk) == IF relOk THEN e ELSE "OSError"

Propagated(e, relOk) == e

\* __exit__ at the end of the with block, normal or exceptional
Exit(p) ==
    /\ pc[p] = "exit"
    /\ \E relOk \in BOOLEAN :
         /\ released' = [released EXCEPT ![p] = IF relOk THEN "ok" ELSE "error"]
         /\ exc' = [exc EXCEPT ![p] = Propagated(@, relOk)]
         /\ pc' = [pc EXCEPT ![p] = IF Propagated(exc[p], relOk) = "none"
                                    THEN "done" ELSE "failed"]
    /\ lock_file' = [lock_file EXCEPT ![p] = FALSE]
    /\ flockOwner' = Unlocked(flockOwner, p)
    /\ log' = [log EXCEPT ![p] = <<>>]
    /\ sawFree' = [q \in Procs |->
                     IF q # p /\ pc[q] \in Acquiring /\ WithinTimeout(elapsed[q])
                     THEN TRUE ELSE sawFree[q]]
    /\ failing' = [failing EXCEPT ![p] = NoFailure]
    /\ UNCHANGED <<elapsed, sleepLeft, cache, todo, loaded, fetched,
                   saveResult, cacheFile>>
    /\ UNCHANGED <<qVars, adapterVars>>

\* ------------------------------------------------------ source adapters

\* what the completed-tasks call and the two Instapaper folders can return
\* (the unread folder holds no bookmark)
CompletedResults == {<<>>, <<2>>}
ArchiveResults == {<<>>, <<1>>}
UnreadResults == {<<>>}

\* an adapter call that catches its own errors: the records on success,
\* an empty list when the fetch failed (todoist.get_all_tasks,
\* get_completed_tasks_past_days, get_all_projects; one Instapaper folder;
\* an unreadable notes directory, calendar feed or health CSV)
Guarded(ok, r) == IF ok THEN r ELSE <<>>

\* the outcomes of one such call: it succeeds with some records, or it
\* fails and there are none
Outcome(ok, r) == ok \/ r = <<>>

\* todoist.get_all_todoist_data followed by `active_tasks + completed_tasks`
AllTasks(okA, rA, okC, rC) == Guarded(okA, rA) \o Guarded(okC, rC)

\* src.sources.instapaper.get_all_articles once InstapaperAPI() is built:
\* the bookmarks of "archive" then of "unread", a failing folder skipped
GetAllArticles(okArch, rArch, okUnread, rUnread) ==
    Guarded(okArch, rArch) \o Guarded(okUnread, rUnread)

\* todoist.update_tasks: upsert by task id (defined in todoist.py, not
\* called by update_todoist_cache)
RECURSIVE update_tasks(_, _)
update_tasks(existing, new) ==
    IF new = <<>> THEN existing
    ELSE LET n == Head(new)
             has == \E i \in 1..Len(existing) : existing[i] = n
         IN update_tasks(IF has THEN existing ELSE Append(existing, n),
                         Tail(new))

\* `cache.<collection> = <fetched list>`: the collection is replaced
Assign_Upsert(c, slice, r) == [c EXCEPT ![slice] = update_tasks(c[slice], r)]

Assign(c, slice, r) == [c EXCEPT ![slice] = r]

\* ------------------------------------------------------ refresh workflow

\* update_cache_for_sources is left, by return or by an exception: its
\* locals are gone
DropLocals(p) ==
    /\ cache' = [cache EXCEPT ![p] = EmptyCache]
    /\ loaded' = [loaded EXCEPT ![p] = EmptyCache]
    /\ fetched' = [fetched EXCEPT ![p] = NoFetch]
    /\ todo' = [todo EXCEPT ![p] = 0]

\* the body of the with block starts: update_cache_for_sources(args.sources)
\* loads the cache
LoadStep(p, Lengths) ==
    /\ pc[p] = "block"
    /\ \E n \in Lengths : todo' = [todo EXCEPT ![p] = n]
    /\ cache' = [cache EXCEPT ![p] = LoadCache(cacheFile)]
    /\ loaded' = [loaded EXCEPT ![p] = LoadCache(cacheFile)]
    /\ pc' = [pc EXCEPT ![p] = "update"]
    /\ log' = [log EXCEPT ![p] = Append(@, "load")]
    /\ sawFree' = [sawFree EXCEPT ![p] = FALSE]
    /\ UNCHANGED <<lockVars, elapsed, sleepLeft, exc, released, fetched,
                   failing, saveResult, cacheFile>>
    /\ UNCHANGED <<qVars, adapterVars>>

\* the log with one more phase of the run: consecutive steps of the same
\* phase are logged once
Logged(l, phase) == IF l[Len(l)] = phase THEN l ELSE Append(l, phase)

\* the loop of update_cache_for_sources is at an entry whose lower case
\* is `name`
AtSource(p, name) ==
    /\ pc[p] = "update"
    /\ todo[p] > 0
    /\ \E arg \in SourceArgs : Lower(arg) = name

\* one collection is assigned and the loop moves on
Refresh_Fresh(p, name, slice, r, ok) ==
    /\ cache' = [cache EXCEPT ![p] = Assign(EmptyCache, slice, r)]
    /\ fetched' = [fetched EXCEPT ![p][slice] = r]
    /\ failing' = [failing EXCEPT ![p] = IF ok THEN NoFailure ELSE name]
    /\ todo' = [todo EXCEPT ![p] = @ - 1]
    /\ log' = [log EXCEPT ![p] = Logged(@, "update")]
    /\ UNCHANGED <<pc, lockVars, elapsed, sleepLeft, exc, released, loaded,
                   saveResult, cacheFile, sawFree>>

Refresh(p, name, slice, r, ok) ==
    /\ cache' = [cache EXCEPT ![p] = Assign(@, slice, r)]
    /\ fetched' = [fetched EXCEPT ![p][slice] = r]
    /\ failing' = [failing EXCEPT ![p] = IF ok THEN NoFailure ELSE name]
    /\ todo' = [todo EXCEPT ![p] = @ - 1]
    /\ log' = [log EXCEPT ![p] = Logged(@, "update")]
    /\ UNCHANGED <<pc, lockVars, elapsed, sleepLeft, exc, released, loaded,
                   saveResult, cacheFile, sawFree>>

UpdateObsidian(p, Results) ==
    /\ AtSource(p, "obsidian")
    /\ \E ok \in BOOLEAN, r \in Results :
         /\ Outcome(ok, r)
         /\ Refresh(p, "obsidian", "obsidian_notes", Guarded(ok, r), ok)
    /\ UNCHANGED <<qVars, adapterVars>>

UpdateCalendar(p, Results) ==
    /\ AtSource(p, "calendar")
    /\ \E ok \in BOOLEAN, r \in Results :
         /\ Outcome(ok, r)
         /\ Refresh(p, "calendar", "calendar_events", Guarded(ok, r), ok)
    /\ UNCHANGED <<qVars, adapterVars>>

UpdateHealth(p, Results) ==
    /\ AtSource(p, "health")
    /\ \E ok \in BOOLEAN, r \in Results :
         /\ Outcome(ok, r)
         /\ Refresh(p, "health", "health_data", Guarded(ok, r), ok)
    /\ UNCHANGED <<qVars, adapterVars>>

\* update_todoist_cache: without an access token the cache is returned as
\* it is; otherwise tasks and projects are both replaced
UpdateTodoist(p, Results, Completed) ==
    /\ AtSource(p, "todoist")
    /\ \E token \in BOOLEAN :
         IF token
         THEN \E okP, okA, okC \in BOOLEAN,
                 rP, rA \in Results, rC \in Completed :
                /\ Outcome(okP, rP) /\ Outcome(okA, rA) /\ Outcome(okC, rC)
                /\ cache' = [cache EXCEPT ![p] =
                       Assign(Assign(@, "todoist_tasks",
                                     AllTasks(okA, rA, okC, rC)),
                              "todoist_projects", Guarded(okP, rP))]
                /\ fetched' = [fetched EXCEPT
                       ![p]["todoist_tasks"] = AllTasks(okA, rA, okC, rC),
                       ![p]["todoist_projects"] = Guarded(okP, rP)]
                /\ failing' = [failing EXCEPT ![p] =
                       IF okP \/ okA \/ okC THEN NoFailure ELSE "todoist"]
         ELSE /\ UNCHANGED <<cache, fetched>>
              /\ failing' = [failing EXCEPT ![p] = "todoist"]
    /\ todo' = [todo EXCEPT ![p] = @ - 1]
    /\ log' = [log EXCEPT ![p] = Logged(@, "update")]
    /\ UNCHANGED <<pc, lockVars, elapsed, sleepLeft, exc, released, loaded,
                   saveResult, cacheFile, sawFree>>
    /\ UNCHANGED <<qVars, adapterVars>>

\* update_instapaper_cache: get_all_articles() builds InstapaperAPI()
\* outside any try, and that raises ValueError without consumer key and
\* secret; nothing catches it before __exit__
UpdateInstapaper(p, Archive, Unread) ==
    /\ AtSource(p, "instapaper")
    /\ \E keyOk \in BOOLEAN :
         IF keyOk
         THEN \E okArch, okUnread \in BOOLEAN,
                 rArch \in Archive, rUnread \in Unread :
                /\ Outcome(okArch, rArch) /\ Outcome(okUnread, rUnread)
                /\ Refresh(p, "instapaper", "instapaper_articles",
                           GetAllArticles(okArch, rArch, okUnread, rUnread),
                           okArch \/ okUnread)
         ELSE /\ exc' = [exc EXCEPT ![p] = "ValueError"]
              /\ pc' = [pc EXCEPT ![p] = "exit"]
              /\ failing' = [failing EXCEPT ![p] = "instapaper"]
              /\ DropLocals(p)
              /\ UNCHANGED <<lockVars, elapsed, sleepLeft, released,
                             saveResult, cacheFile, log, sawFree>>
    /\ UNCHANGED <<qVars, adapterVars>>

\* else: print "Unknown data source"
UnknownSource(p) ==
    /\ pc[p] = "update"
    /\ todo[p] > 0
    /\ \E arg \in SourceArgs : Lower(arg) \notin ValidSources
    /\ todo' = [todo EXCEPT ![p] = @ - 1]
    /\ failing' = [failing EXCEPT ![p] = NoFailure]
    /\ UNCHANGED <<pc, lockVars, elapsed, sleepLeft, exc, released, cache,
                   loaded, fetched, saveResult, cacheFile, log, sawFree>>
    /\ UNCHANGED <<qVars, adapterVars>>

\* the for loop over `sources` is exhausted
LoopDone_Early(n) == TRUE

LoopDone(n) == n = 0

\* save_cache, first half: mkdir (outside the try, so its error leaves the
\* block), then Cache.to_path opens the file with "w", which truncates it;
\* an error of open() is caught and printed by save_cache
SaveOpen(p) ==
    /\ pc[p] = "update"
    /\ LoopDone(todo[p])
    /\ log' = [log EXCEPT ![p] = Append(@, "save")]
    /\ failing' = [failing EXCEPT ![p] = NoFailure]
    /\ \E mkdirOk, openOk \in BOOLEAN :
         IF ~mkdirOk
         THEN /\ exc' = [exc EXCEPT ![p] = "OSError"]
              /\ pc' = [pc EXCEPT ![p] = "exit"]
              /\ DropLocals(p)
              /\ UNCHANGED <<cacheFile, saveResult>>
         ELSE IF ~openOk
         THEN /\ saveResult' = [saveResult EXCEPT ![p] = "error"]
              /\ pc' = [pc EXCEPT ![p] = "exit"]
              /\ DropLocals(p)
              /\ UNCHANGED <<cacheFile, exc>>
         ELSE /\ cacheFile' = Garbage
              /\ pc' = [pc EXCEPT ![p] = "write"]
              /\ UNCHANGED <<exc, saveResult, cache, todo, loaded, fetched>>
    /\ UNCHANGED <<lockVars, elapsed, sleepLeft, released, sawFree>>
    /\ UNCHANGED <<qVars, adapterVars>>

\* save_cache, second half: f.write(model_dump_json()) and close; an error
\* is caught and printed by save_cache and leaves a truncated file
SaveWrite_Raising(p) ==
    /\ pc[p] = "write"
    /\ \E writeOk \in BOOLEAN :
         IF writeOk
         THEN /\ cacheFile' = Serialize(cache[p])
              /\ saveResult' = [saveResult EXCEPT ![p] = "ok"]
              /\ exc' = exc
         ELSE /\ cacheFile' = Garbage
              /\ saveResult' = [saveResult EXCEPT ![p] = "error"]
              /\ exc' = [exc EXCEPT ![p] = "OSError"]
    /\ pc' = [pc EXCEPT ![p] = "exit"]
    /\ DropLocals(p)
    /\ UNCHANGED <<lockVars, elapsed, sleepLeft, released, failing,
                   log, sawFree>>
    /\ UNCHANGED <<qVars, adapterVars>>

SaveWrite(p) ==
    /\ pc[p] = "write"
    /\ \E writeOk \in BOOLEAN :
         IF writeOk
         THEN /\ cacheFile' = Serialize(cache[p])
              /\ saveResult' = [saveResult EXCEPT ![p] = "ok"]
         ELSE /\ cacheFile' = Garbage
              /\ saveResult' = [saveResult EXCEPT ![p] = "error"]
    /\ pc' = [pc EXCEPT ![p] = "exit"]
    /\ DropLocals(p)
    /\ UNCHANGED <<lockVars, elapsed, sleepLeft, exc, released, failing,
                   log, sawFree>>
    /\ UNCHANGED <<qVars, adapterVars>>

\* the process ended; main() is run again later
Restart(p) ==
    /\ pc[p] \in {"done", "failed"}
    /\ pc' = [pc EXCEPT ![p] = "idle"]
    /\ exc' = [exc EXCEPT ![p] = "none"]
    /\ released' = [released EXCEPT ![p] = "no"]
    /\ saveResult' = [saveResult EXCEPT ![p] = "no"]
    /\ log' = [log EXCEPT ![p] = <<>>]
    /\ elapsed' = [elapsed EXCEPT ![p] = 0]
    /\ sawFree' = [sawFree EXCEPT ![p] = FALSE]
    /\ UNCHANGED <<lockVars, sleepLeft, cache, todo, loaded, fetched,
                   failing, cacheFile>>
    /\ UNCHANGED <<qVars, adapterVars>>

\* one step of process p running main(), its inputs drawn from the given
\* sets
LockStep(p) ==
    \/ Start(p)
    \/ TryLock(p)
    \/ ExceptRetry(p)
    \/ LoopTimeout(p)
    \/ Exit(p)
    \/ Restart(p)

WorkStep(p, Lengths, Results, Completed, Archive, Unread) ==
    \/ LoadStep(p, Lengths)
    \/ UpdateObsidian(p, Results)
    \/ UpdateTodoist(p, Results, Completed)
    \/ UpdateInstapaper(p, Archive, Unread)
    \/ UpdateCalendar(p, Results)
    \/ UpdateHealth(p, Results)
    \/ UnknownSource(p)
    \/ SaveOpen(p)
    \/ SaveWrite(p)

\* Spec: every process runs main() against the same lock file and cache
\* file, each run with one source, and the sources hold no records
NoRecords == {<<>>}
OneSource == {1}

Next ==
    \/ \E p \in Procs : LockStep(p)
    \/ \E p \in Procs : WorkStep(p, OneSource, NoRecords, NoRecords,
                                 NoRecords, NoRecords)
    \/ Tick

Spec == Init /\ [][Next]_vars

\* RefreshSpec: one process runs main() again and again, the adapters
\* returning any of the collections above
Refresher == 1

RefreshNext ==
    \/ LockStep(Refresher)
    \/ WorkStep(Refresher, ArgLengths, FetchResults, CompletedResults,
                ArchiveResults, UnreadResults)
    \/ Tick

RefreshSpec == Init /\ [][RefreshNext]_vars

\* FairSpec: every process runs main() with a source name that is not
\* known; time goes on and a process that can take a step eventually does
FairStep(p) ==
    \/ LockStep(p)
    \/ LoadStep(p, OneSource)
    \/ UnknownSource(p)
    \/ SaveOpen(p)
    \/ SaveWrite(p)

FairNext ==
    \/ \E p \in Procs : FairStep(p)
    \/ Tick

FairSpec ==
    /\ Init /\ [][FairNext]_vars
    /\ WF_vars(Tick)
    /\ \A p \in Procs : WF_vars(FairStep(p))

\* ----------------------------------------------------------- query engine

\* Node.date is None
NoDate == -1

\* a date that parse_date cannot parse
BadDate == -2

\* instants per day: 00:00:00, some time during the day, 23:59:59.999999
DayParts == 3

\* the instant at part `part` of day `day`
At(day, part) == day * DayParts + part

\* the calendar day of an instant
DayOf(t) == t \div DayParts

\* datetime.now(): during day Today
Today == 2
Now == At(Today, 1)

\* a record of the cache: models.Node with its variant in data_source;
\* deadline is "TodoistNode.deadline is set"
Node(id, src, date, tags) ==
    [id |-> id, data_source |-> src, date |-> date, tags |-> tags,
     deadline |-> FALSE]

\* a task with a deadline
WithDeadline(n) == [n EXCEPT !.deadline = TRUE]

\* the records the query specifications draw their caches from: per
\* variant, dated and (where the adapter can produce them) undated ones
NodesOf ==
    [src \in ValidSources |->
       CASE src = "obsidian" -> {Node(1, "obsidian", At(2, 0), {"health"})}
         [] src = "todoist" ->
              {Node(2, "todoist", At(1, 0), {"work"}),
               Node(3, "todoist", NoDate, {"health"}),
               WithDeadline(Node(8, "todoist", At(3, 1), {"work"}))}
         [] src = "instapaper" ->
              {Node(4, "instapaper", At(3, 1), {"health", "home"}),
               Node(5, "instapaper", NoDate, {"work"})}
         [] src = "calendar" -> {Node(6, "calendar", At(2, 1), {})}
         [] src = "health" -> {Node(7, "health", At(1, 0), {"health"})}]

\* longest collection of one variant in a stored cache
MaxRecords == 2

\* the lists of at most n elements of S
RECURSIVE ListsOf(_, _)
ListsOf(S, n) ==
    IF n = 0 THEN {<<>>}
    ELSE {<<>>} \cup {<<x>> \o l : x \in S, l \in ListsOf(S, n - 1)}

Elems(l) == {l[i] : i \in 1..Len(l)}

\* the collections of one variant: every record at most once
Collections(src) ==
    {l \in ListsOf(NodesOf[src], MaxRecords) : Cardinality(Elems(l)) = Len(l)}

\* the caches a refresh can have stored
QueryCaches ==
    {[todoist_projects |-> <<>>, todoist_tasks |-> t, obsidian_notes |-> n,
      instapaper_articles |-> a, calendar_events |-> e, health_data |-> h] :
     n \in Collections("obsidian"), t \in Collections("todoist"),
     a \in Collections("instapaper"), e \in Collections("calendar"),
     h \in Collections("health")}

\* the five record collections of a cache, concatenated by extend()
Extend(c) ==
    c["obsidian_notes"] \o c["todoist_tasks"] \o c["instapaper_articles"]
    \o c["calendar_events"] \o c["health_data"]

\* get_all_nodes, the body: load_cache and the concatenation
GetAllNodes(f) == Extend(LoadCache(f))

\* a query string is a sequence of chunks: a blank, or a part "key:value"
\* (key "" stands for a part without a colon). The value of source and tag
\* is the list between the commas; the value of from and to is a day
\* (YYYY-MM-DD), or when rel is set an expression that matches the grammar
\* of parse_relative_date: "now", or a sign ("+", "-" or none), the number
\* `day` and a unit; or BadDate
Blank ==
    [key |-> " ", names |-> <<>>, day |-> 0, rel |-> FALSE,
     sign |-> "", unit |-> ""]
SourcePart(names) == [Blank EXCEPT !.key = "source", !.names = names]
TagPart(names) == [Blank EXCEPT !.key = "tag", !.names = names]
FromPart(day) == [Blank EXCEPT !.key = "from", !.day = day]
ToPart(day) == [Blank EXCEPT !.key = "to", !.day = day]
FromExpr(sign, number, unit) ==
    [Blank EXCEPT !.key = "from", !.day = number, !.rel = TRUE,
                  !.sign = sign, !.unit = unit]
ToExpr(sign, number, unit) ==
    [Blank EXCEPT !.key = "to", !.day = number, !.rel = TRUE,
                  !.sign = sign, !.unit = unit]
FromRel(days) == FromExpr("", days, "d")
ToRel(days) == ToExpr("", days, "d")
FromNow == FromExpr("", 0, "now")
NoColonPart == [Blank EXCEPT !.key = "", !.names = <<"junk">>]
UnknownKeyPart == [Blank EXCEPT !.key = "author", !.names = <<"x">>]

\* str.split(): the parts between runs of whitespace
Split(q) == SelectSeq(q, LAMBDA c : c.key # " ")

valid_parameters == {"source", "tag", "from", "to"}

\* the last part with the given key, the one the loop of from_string keeps
LastPart(parts, key) ==
    parts[CHOOSE i \in 1..Len(parts) :
            /\ parts[i].key = key
            /\ \A j \in (i + 1)..Len(parts) : parts[j].key # key]

HasPart(parts, key) == \E i \in 1..Len(parts) : parts[i].key = key

\* the loop of from_string: the parts without a colon or with a key that
\* is no parameter, all of them, in the order of the string
Unrecognized_First(parts) ==
    LET bad == SelectSeq(parts, LAMBDA c : c.key \notin valid_parameters)
    IN IF bad = <<>> THEN <<>> ELSE <<bad[1]>>

Unrecognized(parts) ==
    SelectSeq(parts, LAMBDA c : c.key \notin valid_parameters)

\* the days datetime can represent (datetime.min to datetime.max), scaled
\* to the days of the model
MinDay == -400
MaxDay == 400

\* now + timedelta(...) raised OverflowError: date value out of range
OutOfRange == At(MinDay, 0) - 1

\* parse_relative_date on the value of a from or to part: ValueError
\* (BadDate) when the value does not match the grammar, now for "now",
\* else now plus the signed amount of days, weeks, 30-day months or
\* 365-day years; the sum keeps the time of day of now and overflows
\* outside the range of datetime
parse_relative_date_Unsigned(c) ==
    IF ~c.rel THEN BadDate
    ELSE IF c.unit = "now" THEN Now
    ELSE LET amount == c.day
             days == CASE c.unit = "d" -> amount
                       [] c.unit = "w" -> amount * 7
                       [] c.unit = "m" -> amount * 30
                       [] c.unit = "y" -> amount * 365
             t == Now + days * DayParts
         IN IF DayOf(t) \in MinDay..MaxDay THEN t ELSE OutOfRange

parse_relative_date(c) ==
    IF ~c.rel THEN BadDate
    ELSE IF c.unit = "now" THEN Now
    ELSE LET multiplier == IF c.sign = "-" THEN -1 ELSE 1
             amount == c.day * multiplier
             days == CASE c.unit = "d" -> amount
                       [] c.unit = "w" -> amount * 7
                       [] c.unit = "m" -> amount * 30
                       [] c.unit = "y" -> amount * 365
             t == Now + days * DayParts
         IN IF DayOf(t) \in MinDay..MaxDay THEN t ELSE OutOfRange

\* Query.parse_date on the value of a from or to part: the relative
\* grammar first and, on its ValueError, strptime("%Y-%m-%d"), which gives
\* 00:00 of the day or fails; an OverflowError is not caught
ParseDate(c) ==
    LET relative == parse_relative_date(c)
    IN IF relative # BadDate THEN relative
       ELSE IF c.day = BadDate THEN BadDate
       ELSE At(c.day, 0)

\* Query.validate_date_order, on the two dates as parsed
validate_date_order_Never(from_date, to_date) == FALSE

validate_date_order(from_date, to_date) == from_date > to_date

\* to_date.replace(hour=23, minute=59, second=59, microsecond=999999)
EndOfDay_Same(t) == t

EndOfDay(t) == At(DayOf(t), DayParts - 1)

\* no Query object
NoSpec == [hasSource |-> FALSE, source |-> <<>>, hasTag |-> FALSE,
           tag |-> <<>>, from_date |-> NoDate, to_date |-> NoDate]

\* Query.from_string: raises ValueError naming the unrecognized parts if
\* there are any; else builds the Query, whose validators fail on an
\* unknown source (validate_source), on a date that does not parse
\* (parse_date) and on from_date > to_date (validate_date_order, skipped
\* when from_date did not validate); an OverflowError of parse_date is no
\* validation error and leaves the constructor as it is ("overflow"); then
\* to_date is moved to the end of its day
FromString(q) ==
    LET parts == Split(q)
        unrecognized_parts == Unrecognized(parts)
        hasSource == HasPart(parts, "source")
        hasTag == HasPart(parts, "tag")
        hasFrom == HasPart(parts, "from")
        hasTo == HasPart(parts, "to")
        source == IF hasSource THEN LastPart(parts, "source").names ELSE <<>>
        tag == IF hasTag THEN LastPart(parts, "tag").names ELSE <<>>
        from_date == IF hasFrom THEN ParseDate(LastPart(parts, "from"))
                     ELSE NoDate
        to_date == IF hasTo THEN ParseDate(LastPart(parts, "to")) ELSE NoDate
        overflow == from_date = OutOfRange \/ to_date = OutOfRange
        errors ==
            {e \in {"source", "from_date", "to_date", "order"} :
               \/ e = "source"
                  /\ \E i \in 1..Len(source) : source[i] \notin ValidSources
               \/ e = "from_date" /\ from_date = BadDate
               \/ e = "to_date" /\ to_date = BadDate
               \/ e = "order" /\ hasFrom /\ hasTo
                  /\ from_date # BadDate /\ to_date # BadDate
                  /\ validate_date_order(from_date, to_date)}
    IN IF unrecognized_parts # <<>>
       THEN [ok |-> FALSE, offending |-> unrecognized_parts, errors |-> {},
             spec |-> NoSpec]
       ELSE IF overflow
       THEN [ok |-> FALSE, offending |-> <<>>, errors |-> {"overflow"},
             spec |-> NoSpec]
       ELSE IF errors # {}
       THEN [ok |-> FALSE, offending |-> <<>>, errors |-> errors,
             spec |-> NoSpec]
       ELSE [ok |-> TRUE, offending |-> <<>>, errors |-> {},
             spec |-> [hasSource |-> hasSource, source |-> source,
                       hasTag |-> hasTag, tag |-> tag,
                       from_date |-> from_date,
                       to_date |-> IF hasTo THEN EndOfDay(to_date)
                                   ELSE NoDate]]

\* the four filters of get_query_lambdas
source_filter(query, node) ==
    \E i \in 1..Len(query.source) : query.source[i] = node.data_source

tag_filter_All(query, node) ==
    \A i \in 1..Len(query.tag) : query.tag[i] \in node.tags

tag_filter(query, node) ==
    \E i \in 1..Len(query.tag) : query.tag[i] \in node.tags

from_date_filter(query, node) ==
    node.date = NoDate \/ node.date >= query.from_date

to_date_filter(query, node) ==
    node.date = NoDate \/ node.date <= query.to_date

\* get_query_lambdas: one filter for every field of the query that is
\* set, in this order
get_query_lambdas(query) ==
    (IF query.hasSource THEN <<"source">> ELSE <<>>)
    \o (IF query.hasTag THEN <<"tag">> ELSE <<>>)
    \o (IF query.from_date # NoDate THEN <<"from">> ELSE <<>>)
    \o (IF query.to_date # NoDate THEN <<"to">> ELSE <<>>)

\* filter_func(node)
Apply(name, query, node) ==
    CASE name = "source" -> source_filter(query, node)
      [] name = "tag" -> tag_filter(query, node)
      [] name = "from" -> from_date_filter(query, node)
      [] name = "to" -> to_date_filter(query, node)

\* the filter loop of run(): every filter narrows the list the previous
\* one left
RECURSIVE ApplyFilters_LastOnly(_, _, _)
ApplyFilters_LastOnly(lambdas, query, nodes) ==
    IF lambdas = <<>> THEN nodes
    ELSE SelectSeq(nodes, LAMBDA n : Apply(lambdas[Len(lambdas)], query, n))

RECURSIVE ApplyFilters(_, _, _)
ApplyFilters(lambdas, query, nodes) ==
    IF lambdas = <<>> THEN nodes
    ELSE ApplyFilters(Tail(lambdas), query,
                      SelectSeq(nodes, LAMBDA n : Apply(Head(lambdas), query, n)))

\* run() filters with at least one lambda, so into a new list
Filters(query) == get_query_lambdas(query) # <<>>

\* the sort key (x.date is None, x.date) of a is greater than that of b
KeyGreater(a, b) ==
    IF (a.date = NoDate) # (b.date = NoDate) THEN a.date = NoDate
    ELSE IF a.date = NoDate THEN FALSE
    ELSE a.date > b.date

\* list.sort(key=..., reverse=True) is stable: x goes before the first
\* element of smaller key
InsertSorted_TiesFirst(l, x) ==
    LET smaller == {i \in 1..Len(l) : ~KeyGreater(l[i], x)}
    IN IF smaller = {} THEN Append(l, x)
       ELSE LET k == CHOOSE i \in smaller : \A j \in smaller : i <= j
            IN SubSeq(l, 1, k - 1) \o <<x>> \o SubSeq(l, k, Len(l))

InsertSorted(l, x) ==
    LET smaller == {i \in 1..Len(l) : KeyGreater(x, l[i])}
    IN IF smaller = {} THEN Append(l, x)
       ELSE LET k == CHOOSE i \in smaller : \A j \in smaller : i <= j
            IN SubSeq(l, 1, k - 1) \o <<x>> \o SubSeq(l, k, Len(l))

RECURSIVE SortNodes(_)
SortNodes(l) ==
    IF l = <<>> THEN <<>>
    ELSE InsertSorted(SortNodes(SubSeq(l, 1, Len(l) - 1)), l[Len(l)])

\* the lists run() hands to the renderers: the nodes of each class, and of
\* the articles only those with a date
Partition(nodes) ==
    [src \in ValidSources |->
       SelectSeq(nodes, LAMBDA n :
          /\ n.data_source = src
          /\ src = "instapaper" => n.date # NoDate)]

\* the text of one renderer: the empty string, or the header of the
\* variant followed by one entry per record
EmptyString == [text |-> FALSE, items |-> <<>>]
Rendered(nodes) == [text |-> TRUE, items |-> [i \in 1..Len(nodes) |-> nodes[i].id]]

\* the Todoist template calls task.deadline.strftig(...) for a task that
\* has a deadline, which Jinja fails with UndefinedError
TodoistRaises(tasks) == \E i \in 1..Len(tasks) : tasks[i].deadline

\* create_<variant>_prompt on a non-empty list: the notes, tasks and health
\* entries are sorted again, the articles and events rendered as given
CreatePrompt(src, nodes) ==
    IF src \in {"obsidian", "todoist", "health"}
    THEN Rendered(SortNodes(nodes)) ELSE Rendered(nodes)

\* the blocks of MASTER_PROMPT_TEMPLATE, in its order
TemplateOrder == <<"obsidian", "todoist", "instapaper", "calendar", "health">>

\* MASTER_PROMPT_TEMPLATE: the query line, the outputs that are not empty,
\* and the "No results found" block when all five are empty
MasterPrompt(q, out) ==
    [header |-> TRUE,
     blocks |-> SelectSeq(TemplateOrder, LAMBDA s : out[s].text),
     items |-> [s \in ValidSources |-> out[s].items],
     sentinel |-> \A s \in ValidSources : ~out[s].text]

\* nothing was rendered
NoOutput ==
    [header |-> FALSE, blocks |-> <<>>,
     items |-> [s \in ValidSources |-> <<>>], sentinel |-> FALSE]

\* run(query_string) on the list `nodes` that get_all_nodes() returns:
\* parse, filter, sort, partition, render. `raised` is the exception that
\* leaves run(), `loaded` whether get_all_nodes() was reached, `memo` the
\* list of get_all_nodes afterwards (without a filter the sorted list is
\* that list itself)
run(q, nodes) ==
    LET parse == FromString(q)
        query == parse.spec
        filtered_nodes ==
            SortNodes(ApplyFilters(get_query_lambdas(query), query, nodes))
        parts == Partition(filtered_nodes)
        out == [s \in ValidSources |->
                  IF parts[s] = <<>> THEN EmptyString
                  ELSE CreatePrompt(s, parts[s])]
        raised == IF parse.offending # <<>> THEN "ValueError"
                  ELSE IF "overflow" \in parse.errors THEN "OverflowError"
                  ELSE IF ~parse.ok THEN "ValidationError"
                  ELSE IF TodoistRaises(parts["todoist"]) THEN "UndefinedError"
                  ELSE "none"
    IN [raised |-> raised, parse |-> parse, loaded |-> parse.ok,
        memo |-> IF Filters(query) THEN nodes ELSE SortNodes(nodes),
        nodes |-> filtered_nodes, parts |-> parts,
        output |-> MasterPrompt(q, out)]

\* get_query_result: the prompt of run(), or the text of the exception
get_query_result_Rethrow(q, r) ==
    [kind |-> IF r.raised # "none" THEN "raised" ELSE "ok",
     query |-> q, text |-> r.raised,
     offending |-> r.parse.offending, errors |-> r.parse.errors,
     spec |-> r.parse.spec, nodes |-> r.nodes, parts |-> r.parts,
     output |-> r.output]

get_query_result(q, r) ==
    IF r.raised # "none"
    THEN [kind |-> "error", query |-> q, text |-> r.raised,
          offending |-> r.parse.offending, errors |-> r.parse.errors,
          spec |-> r.parse.spec, nodes |-> <<>>, parts |-> NoParts,
          output |-> NoOutput]
    ELSE [kind |-> "ok", query |-> q, text |-> "none",
          offending |-> <<>>, errors |-> {},
          spec |-> r.parse.spec, nodes |-> r.nodes, parts |-> r.parts,
          output |-> r.output]

\* get_query_help, evaluated when the server module is loaded: it calls
\* get_all_nodes(), which reads the cache file without the lock and keeps
\* the list for the life of the process
GetQueryHelp_Saving ==
    /\ ~cached
    /\ cached' = TRUE
    /\ all_nodes' = GetAllNodes(cacheFile)
    /\ cacheFile' = Serialize(LoadCache(cacheFile))
    /\ UNCHANGED <<result, mainVars>>

GetQueryHelp ==
    /\ ~cached
    /\ cached' = TRUE
    /\ all_nodes' = GetAllNodes(cacheFile)
    /\ UNCHANGED <<result, mainVars, cacheFile>>

\* get_query_result(query_string): run() with the list of get_all_nodes()
\* (from functools.cache when it is there), and what the tool returns
Run_Reload(q) ==
    \E nodes \in {GetAllNodes(cacheFile)} :
    \E r \in {run(q, nodes)} :
       /\ cached' = (cached \/ r.loaded)
       /\ all_nodes' = IF r.loaded THEN r.memo ELSE all_nodes
       /\ result' = get_query_result(q, r)

Run(q) ==
    \E nodes \in {IF cached THEN all_nodes ELSE GetAllNodes(cacheFile)} :
    \E r \in {run(q, nodes)} :
       /\ cached' = (cached \/ r.loaded)
       /\ all_nodes' = IF r.loaded THEN r.memo ELSE all_nodes
       /\ result' = get_query_result(q, r)

\* the server process ends; a new one starts with nothing cached
ServerExit ==
    /\ cached \/ result # NoResult
    /\ cached' = FALSE
    /\ all_nodes' = <<>>
    /\ result' = NoResult
    /\ UNCHANGED <<mainVars, cacheFile>>

\* the query strings of QuerySpec
QueryStrings ==
    {<<>>, <<Blank>>, <<SourcePart(<<"todoist">>)>>,
     <<SourcePart(<<"rss">>)>>, <<TagPart(<<"work">>), Blank>>,
     <<TagPart(<<"work", "health">>)>>,
     <<TagPart(<<"work">>), Blank, FromPart(1), Blank, ToPart(3)>>,
     <<SourcePart(<<"instapaper", "todoist">>), TagPart(<<"health">>)>>,
     <<FromPart(1), ToPart(2)>>, <<FromPart(2), ToPart(1)>>,
     <<FromRel(0), ToPart(Today)>>, <<FromPart(2)>>,
     <<ToPart(3)>>, <<ToRel(1)>>,
     <<ToPart(BadDate)>>, <<NoColonPart>>,
     <<NoColonPart, ToPart(1), UnknownKeyPart>>,
     <<FromExpr("-", 7, "d"), ToExpr("", 1, "m")>>,
     <<FromExpr("-", 1, "y"), ToExpr("+", 1, "w")>>,
     <<FromExpr("+", 2, "y")>>, <<FromNow>>}

\* QuerySpec: a query server over a cache file that a refresh has stored
QueryInit ==
    /\ MainInit
    /\ ServerInit
    /\ AdapterIdle
    /\ cacheFile \in {Missing, Garbage} \cup {Serialize(c) : c \in QueryCaches}

QueryNext ==
    \/ GetQueryHelp
    \/ \E q \in QueryStrings : Run(q) /\ UNCHANGED <<mainVars, cacheFile>>
    \/ ServerExit

QuerySpec == QueryInit /\ [][QueryNext]_vars

\* StoreSpec: one process refreshes the health source again and again
\* while query servers start and end
StoreNext ==
    \/ LockStep(Refresher)
    \/ LoadStep(Refresher, OneSource)
    \/ UpdateHealth(Refresher, FetchResults)
    \/ SaveOpen(Refresher)
    \/ SaveWrite(Refresher)
    \/ Tick
    \/ GetQueryHelp
    \/ ServerExit

StoreSpec == Init /\ [][StoreNext]_vars

\* ServeSpec: a query server answers queries while one process refreshes
\* the health source again and again
HealthResults == {<<>>} \cup {<<n>> : n \in NodesOf["health"]}

ServeQueries == {<<>>, <<SourcePart(<<"health">>)>>, <<NoColonPart>>}

ServeNext ==
    \/ LockStep(Refresher)
    \/ LoadStep(Refresher, OneSource)
    \/ UpdateHealth(Refresher, HealthResults)
    \/ SaveOpen(Refresher)
    \/ SaveWrite(Refresher)
    \/ Tick
    \/ GetQueryHelp
    \/ \E q \in ServeQueries : Run(q) /\ UNCHANGED <<mainVars, cacheFile>>
    \/ ServerExit

ServeSpec == Init /\ [][ServeNext]_vars

\* ---------------------------------------------------- adapters' inputs

\* longest batch an adapter is given
MaxBatch == 3

\* the formats get_all_health_data tries on a date cell, in order
DateFormats == <<"%Y-%m-%d", "%m/%d/%Y", "%d/%m/%Y">>

\* a row of the health CSV: readable is "the csv reader yields it",
\* format the format its date cell is written in ("" for an empty cell,
\* "junk" for text in none of the formats), surplus "the row has more
\* cells than the header", so that a cell list stands where text is due
Row(readable, format, day, steps, surplus) ==
    [readable |-> readable, format |-> format, day |-> day,
     steps |-> steps, surplus |-> surplus]

HealthRows ==
    {Row(TRUE, "%Y-%m-%d", 1, 10, FALSE),
     Row(TRUE, "%d/%m/%Y", 2, 20, FALSE),
     Row(TRUE, "", 0, 30, FALSE),
     Row(TRUE, "junk", 0, 40, FALSE),
     Row(TRUE, "%Y-%m-%d", 3, 50, TRUE),
     Row(FALSE, "%Y-%m-%d", 3, 60, FALSE)}

\* datetime.strptime(date_str, date_format)
strptime(row, date_format) ==
    IF row.format = date_format THEN At(row.day, 0) ELSE BadDate

\* the first format that parses the date cell
RECURSIVE TryFormats(_, _)
TryFormats(row, i) ==
    IF i > Len(DateFormats) THEN BadDate
    ELSE LET date == strptime(row, DateFormats[i])
         IN  IF date # BadDate THEN date ELSE TryFormats(row, i + 1)

HealthNode(row, date) ==
    [data_source |-> "health", date |-> date, tags |-> <<>>,
     health_metrics |-> row.steps]

\* the loop of get_all_health_data over the rows still to read
RECURSIVE ReadRows(_, _)
ReadRows(rows, health_nodes) ==
    IF rows = <<>> THEN health_nodes
    ELSE LET row == Head(rows)
             date == TryFormats(row, 1)
         IN  IF ~row.readable THEN health_nodes
             ELSE IF row.format = "" THEN ReadRows(Tail(rows), health_nodes)
             ELSE IF date = BadDate THEN ReadRows(Tail(rows), health_nodes)
             ELSE IF row.surplus THEN ReadRows(Tail(rows), health_nodes)
             ELSE ReadRows(Tail(rows),
                           Append(health_nodes, HealthNode(row, date)))

get_all_health_data(rows) == ReadRows(rows, <<>>)

\* a markdown file of the vault: parses is "reading it, loading its front
\* matter and building the record raise nothing"; placeholder says where
\* Templater text stands: "body" and "yaml" for "<%tp." or
\* "tp.file.cursor()" in the body or in a front-matter value, "yaml_key"
\* for it as a front-matter key, "yaml_bare" for "<%tp" without the dot
\* in a front-matter value
File(name, parses, placeholder, date) ==
    [name |-> name, parses |-> parses, placeholder |-> placeholder,
     date |-> date]

ObsidianFiles ==
    {File("a", TRUE, "none", 1),
     File("b", TRUE, "none", NoDate),
     File("c", FALSE, "none", 1),
     File("d", TRUE, "body", 2),
     File("e", TRUE, "yaml_bare", 2),
     File("f", TRUE, "yaml_key", NoDate)}

\* C22 mutant: only the text of the file is searched
is_template_content_ContentOnly(file) ==
    file.placeholder \in {"body", "yaml", "yaml_key"}

is_template_content(file) ==
    \/ file.placeholder \in {"body", "yaml", "yaml_key"}
    \/ file.placeholder \in {"yaml", "yaml_key", "yaml_bare"}

ObsidianNode(file) ==
    [data_source |-> "obsidian", name |-> file.name,
     date |-> IF file.date = NoDate THEN NoDate ELSE At(file.date, 0),
     placeholder |-> file.placeholder]

\* what get_obsidian_file_by_path returns when it returns None
NoNode == [data_source |-> "none"]

get_obsidian_file_by_path(file) ==
    IF ~file.parses THEN [raised |-> TRUE, node |-> NoNode]
    ELSE IF is_template_content(file) THEN [raised |-> FALSE, node |-> NoNode]
    ELSE [raised |-> FALSE, node |-> ObsidianNode(file)]

\* the markers in the body or among the keys of the front matter
is_template_file(node) == node.placeholder \in {"body", "yaml_key"}

is_date_none(node) == node.date = NoDate

filter_obsidian_nodes(nodes) ==
    SelectSeq(nodes, LAMBDA node : ~is_template_file(node) /\ ~is_date_none(node))

\* the loop of obsidian.get_all_nodes over the files of the walk
RECURSIVE ReadFiles(_, _)
ReadFiles(files, obsidian_nodes) ==
    IF files = <<>> THEN obsidian_nodes
    ELSE LET got == get_obsidian_file_by_path(Head(files))
         IN  IF got.raised THEN ReadFiles(Tail(files), obsidian_nodes)
             ELSE IF got.node # NoNode
                  THEN ReadFiles(Tail(files), Append(obsidian_nodes, got.node))
                  ELSE ReadFiles(Tail(files), obsidian_nodes)

get_all_nodes(files) == filter_obsidian_nodes(ReadFiles(files, <<>>))

\* a Todoist project and a task as the API returns them
Project(project_id, name) == [project_id |-> project_id, name |-> name]
Task(labels, project_id) == [labels |-> labels, project_id |-> project_id]

\* the project lists of a batch; project 3 is in none of them
ProjectLists ==
    {<<>>, <<Project(1, "work"), Project(2, "errands"), Project(1, "home")>>}

\* no project name: None, and "" which Python's truth test treats alike
NoName == ""

get_project_name(task, projects) ==
    LET matching == SelectSeq(projects,
                      LAMBDA project : project.project_id = task.project_id)
    IN  IF matching = <<>> THEN NoName ELSE Head(matching).name

get_union_of_labels_and_project(task, projects) ==
    LET project_name == get_project_name(task, projects)
    IN  IF project_name # NoName THEN task.labels \o <<project_name>>
        ELSE task.labels

create_todoist_node_from_api_response(task, projects) ==
    [data_source |-> "todoist", labels |-> task.labels,
     project_id |-> task.project_id,
     tags |-> get_union_of_labels_and_project(task, projects)]

\* the batches the adapters are studied on: rows of the CSV, files of
\* the vault, or one task, of distinct labels, with the project list
Batches ==
    {[kind |-> "health", inputs |-> rows, projects |-> <<>>] :
        rows \in ListsOf(HealthRows, MaxBatch)}
    \cup {[kind |-> "obsidian", inputs |-> files, projects |-> <<>>] :
            files \in ListsOf(ObsidianFiles, MaxBatch)}
    \cup {[kind |-> "todoist", inputs |-> <<Task(labels, project_id)>>,
           projects |-> projects] :
            labels \in {l \in ListsOf({"work", "home"}, MaxBatch) :
                          Cardinality(Elems(l)) = Len(l)},
            project_id \in 1..3, projects \in ProjectLists}

AdapterInit ==
    /\ MainInit
    /\ ServerInit
    /\ cacheFile = Missing
    /\ batch \in Batches
    /\ produced = NoProduct

GetAllHealthData ==
    /\ batch.kind = "health"
    /\ produced = NoProduct
    /\ produced' = get_all_health_data(batch.inputs)
    /\ UNCHANGED <<batch, procVars, qVars, cacheFile>>

ObsidianGetAllNodes ==
    /\ batch.kind = "obsidian"
    /\ produced = NoProduct
    /\ produced' = get_all_nodes(batch.inputs)
    /\ UNCHANGED <<batch, procVars, qVars, cacheFile>>

CreateTodoistNode ==
    /\ batch.kind = "todoist"
    /\ produced = NoProduct
    /\ produced' = <<create_todoist_node_from_api_response(
                       batch.inputs[1], batch.projects)>>
    /\ UNCHANGED <<batch, procVars, qVars, cacheFile>>

AdapterNext ==
    \/ GetAllHealthData
    \/ ObsidianGetAllNodes
    \/ CreateTodoistNode

AdapterSpec == AdapterInit /\ [][AdapterNext]_vars

\* a process holds the lock: it is in the body of its with block or at
\* its end, before __exit__ has run
Holds(p) == pc[p] \in InBlock \cup {"exit"}

TypeOK ==
    /\ pc \in [Procs -> {"idle", "done", "failed", "exit"} \cup Acquiring \cup InBlock]
    /\ flockOwner \in Procs \cup {NoOwner}
    /\ elapsed \in [Procs -> 0..TimeoutTicks]

\* the last entry of a run's log
Last(l) == l[Len(l)]

\* ------------------------------------------------------------------- C1
\* C1: at most one process is inside its protected block at any instant
C1_MutualExclusion ==
    \A p, q \in Procs : Holds(p) /\ Holds(q) => p = q

\* one process is in its block while another one's attempt has failed
C1_Witness ==
    \E p, q \in Procs : pc[p] = "update" /\ pc[q] = "sleep"

\* ------------------------------------------------------------------- C2
\* C2: in one refresh run the lock is acquired first, the cache is loaded
\* next, every update of a selected source comes after the load and before
\* the save, the save happens once, when the loop over the sources is
\* exhausted, and the lock is held throughout and released only afterwards
C2_RunOrder ==
    \A p \in Procs :
      /\ \A i \in 1..Len(log[p]) :
           /\ log[p][i] = "acquire" <=> (i = 1 /\ log[p][i] # "timeout")
           /\ log[p][i] = "load" <=> i = 2
           /\ log[p][i] = "update" => i > 2
           /\ log[p][i] = "save" => (i > 2 /\ i = Len(log[p]))
      /\ pc[p] \in {"update", "write"} => Len(log[p]) >= 2
      /\ pc[p] = "write" => (todo[p] = 0 /\ Last(log[p]) = "save")
      /\ (pc[p] = "exit" /\ exc[p] = "none") => Last(log[p]) = "save"
      /\ (log[p] # <<>> /\ log[p] # <<"timeout">>) =>
            (flockOwner = p /\ released[p] = "no")
      /\ pc[p] = "done" => (flockOwner # p /\ released[p] # "no")

\* a run that refreshed a source has saved and still holds the lock
C2_Witness ==
    \E p \in Procs :
      /\ pc[p] = "exit"
      /\ log[p] = <<"acquire", "load", "update", "save">>

\* ------------------------------------------------------------------- C3
\* C3: every way out of the protected block goes through the release; the
\* release frees the lock and clears lock_file whether or not unlocking
\* raised, the exception of the block (if any) goes on unchanged, and a
\* process that has ended holds no lock
C3_GuaranteedRelease ==
    /\ [](\A p \in Procs :
            pc[p] \in {"idle", "done", "failed"} =>
               (flockOwner # p /\ ~lock_file[p]))
    /\ [][\A p \in Procs :
            /\ (pc[p] \in InBlock /\ pc'[p] \notin InBlock) => pc'[p] = "exit"
            /\ (pc[p] = "exit" /\ pc'[p] # "exit") =>
                 /\ flockOwner' # p
                 /\ ~lock_file'[p]
                 /\ released'[p] \in {"ok", "error"}
                 /\ exc'[p] = exc[p]
                 /\ pc'[p] = IF exc[p] = "none" THEN "done" ELSE "failed"]_vars

\* a block left by an exception whose release raised too: the process
\* ended with the block's exception
C3_Witness ==
    \E p \in Procs :
      pc[p] = "failed" /\ exc[p] = "ValueError" /\ released[p] = "error"

C5_LockTimeout ==
    /\ [](\A b \in Procs :
            (pc[b] = "failed" /\ exc[b] = "TimeoutError") =>
               /\ log[b] = <<"timeout">>
               /\ elapsed[b] >= TimeoutTicks
               /\ flockOwner # b /\ ~lock_file[b]
               /\ saveResult[b] = "no" /\ released[b] = "no"
               /\ fetched[b] = NoFetch)
    /\ [][\A b \in Procs :
            pc[b] \in Acquiring =>
              /\ cacheFile' # cacheFile =>
                   \E a \in Procs \ {b} :
                      pc[a] \in {"update", "write"} /\ flockOwner = a
              /\ (pc[b] # "sleep" /\ pc'[b] = "sleep") =>
                   (pc[b] = "except" /\ sleepLeft'[b] = BackoffTicks)
              /\ (pc[b] = "sleep" /\ pc'[b] # "sleep") =>
                   (sleepLeft[b] = 1 /\ sleepLeft'[b] = 0 /\ pc'[b] = "try")
              /\ (elapsed[b] >= TimeoutTicks /\ pc[b] = "try"
                  /\ pc'[b] # "try") =>
                   (pc'[b] = "failed" /\ exc'[b] = "TimeoutError")]_vars
    /\ \A b \in Procs : []<>(pc[b] \notin Acquiring)

\* a process has timed out while another one is still in its block
C5_Witness ==
    \E a, b \in Procs :
      /\ pc[b] = "failed" /\ exc[b] = "TimeoutError"
      /\ pc[a] \in InBlock

\* ------------------------------------------------------------------- C6
\* C6 as stated: whenever the adapter of a selected source has failed, no
\* exception is in flight and the loop goes on with the next source, the
\* failed source has contributed no record, and a run that leaves
\* update_cache_for_sources has called save_cache.
C6_AsStated ==
    \A p \in Procs :
      /\ failing[p] # NoFailure =>
           /\ exc[p] = "none"
           /\ pc[p] = "update"
           /\ \A s \in Slices :
                (failing[p] = "todoist" /\ s \in {"todoist_tasks", "todoist_projects"})
                \/ (failing[p] = "instapaper" /\ s = "instapaper_articles")
                \/ (failing[p] = "obsidian" /\ s = "obsidian_notes")
                \/ (failing[p] = "calendar" /\ s = "calendar_events")
                \/ (failing[p] = "health" /\ s = "health_data")
                => fetched[p][s] \in {NotFetched, <<>>}
      /\ (pc[p] = "exit" /\ log[p] # <<>>) => Last(log[p]) = "save"

\* ------------------------------------------------------------------- C7
\* C7: load_cache does not raise, and what it returns is the cache stored
\* in the file when the file holds one, and a cache whose collections are
\* all empty when the file is missing or cannot be read as a cache.
C7_LoadCacheTotal ==
    \A p \in Procs :
      pc[p] = "update" =>
        /\ exc[p] = "none"
        /\ loaded[p] \in [Slices -> Seq(Nat)]
        /\ cacheFile.kind = "json" => loaded[p] = cacheFile.doc
        /\ cacheFile.kind # "json" =>
             \A s \in Slices : loaded[p][s] = <<>>

\* load_cache has run on a file that is not a cache document
C7_Witness ==
    \E p \in Procs :
      /\ pc[p] = "update"
      /\ cacheFile = Garbage
      /\ loaded[p] = EmptyCache

\* ------------------------------------------------------------------- C8
\* C8 as stated: a load_cache that runs while a save_cache is writing
\* the file returns the cache that was stored before the save or the
\* cache being saved.
C8_AsStated ==
    [][\A w \in Procs :
         (pc[w] = "write" /\ ~cached /\ cached') =>
            all_nodes' \in {Extend(loaded[w]), Extend(cache[w])}]_vars

\* ------------------------------------------------------------------- C9
\* C9: in a run of the refresh workflow every collection that was fetched
\* holds exactly the records of its latest fetch, whatever the run loaded
\* from the file, every other collection is as loaded, and a save that
\* succeeds stores exactly that cache.
C9_FullReplacement ==
    /\ [](\A p \in Procs :
            pc[p] \in {"update", "write"} =>
              \A s \in Slices :
                cache[p][s] = IF fetched[p][s] = NotFetched
                              THEN loaded[p][s] ELSE fetched[p][s])
    /\ [][\A p \in Procs :
            (pc[p] = "write" /\ saveResult'[p] = "ok") =>
               /\ cacheFile'.kind = "json"
               /\ \A s \in Slices :
                    cacheFile'.doc[s] = IF fetched[p][s] = NotFetched
                                        THEN loaded[p][s] ELSE fetched[p][s]]_vars

\* the second of two runs is about to store tasks that share no record
\* with the tasks the first run stored
C9_Witness ==
    \E p \in Procs :
      /\ pc[p] = "write"
      /\ loaded[p]["todoist_tasks"] = <<1>>
      /\ fetched[p]["todoist_tasks"] = <<2>>
      /\ cache[p]["todoist_tasks"] = <<2>>

\* ------------------------------------------------------------------ C10
\* C10 as stated: a query string without any token succeeds, every record
\* of the collection is in the partition of its variant and nowhere else,
\* and every partition is in the order of the sort law: dated records
\* first, most recent first, undated records after them.
C10_AsStated ==
    (result.kind # "none" /\ Split(result.query) = <<>>) =>
      /\ result.kind = "ok"
      /\ \A src \in ValidSources :
           LET part == result.parts[src]
           IN /\ Elems(part) =
                   {n \in Elems(all_nodes) : n.data_source = src}
              /\ Len(part) = Cardinality(Elems(part))
              /\ \A i, j \in 1..Len(part) :
                   i < j =>
                     /\ part[i].date = NoDate => part[j].date = NoDate
                     /\ part[j].date # NoDate => part[i].date >= part[j].date

\* ------------------------------------------------------------------ C11
\* C11 as stated: in the result of a query with a from bound, a to bound
\* or both, every record without a date that satisfies the source and tag
\* predicates of the query is present, in the filtered list and in the
\* sequence of its variant that is rendered.
C11_AsStated ==
    (/\ result.kind = "ok"
     /\ (result.spec.from_date # NoDate \/ result.spec.to_date # NoDate)) =>
      \A n \in Elems(all_nodes) :
        (/\ n.date = NoDate
         /\ result.spec.hasSource => source_filter(result.spec, n)
         /\ result.spec.hasTag => tag_filter(result.spec, n)) =>
           /\ n \in Elems(result.nodes)
           /\ n \in Elems(result.parts[n.data_source])

\* ------------------------------------------------------------------ C12
\* C12 as stated: in the filtered list, in every sequence handed to a
\* renderer and in the order a renderer prints, every record with a date
\* comes before every record without one, and the dated records are in
\* order from the most recent to the oldest.
C12_AsStated ==
    result.kind = "ok" =>
      LET Law(l) ==
            \A i, j \in 1..Len(l) :
              i < j =>
                /\ l[i].date = NoDate => l[j].date = NoDate
                /\ l[j].date # NoDate => l[i].date >= l[j].date
      IN /\ Law(result.nodes)
         /\ \A src \in ValidSources : Law(result.parts[src])

\* ------------------------------------------------------------------ C13
\* C13: in the result of a query with a tag list L, a record that passes
\* the other predicates of the query is kept if and only if at least one
\* element of L is among its tags.
C13_TagOr ==
    (result.kind = "ok" /\ result.spec.hasTag) =>
      LET L == Elems(result.spec.tag)
      IN \A n \in Elems(all_nodes) :
           (/\ result.spec.hasSource => source_filter(result.spec, n)
            /\ result.spec.from_date # NoDate => from_date_filter(result.spec, n)
            /\ result.spec.to_date # NoDate => to_date_filter(result.spec, n)) =>
              (n \in Elems(result.nodes) <=> (n.tags \cap L) # {})

\* a record with one tag in L and one outside it is kept, and a record
\* with no tag in L is dropped
C13_Witness ==
    /\ result.kind = "ok"
    /\ result.spec.tag = <<"work", "health">>
    /\ \E n \in Elems(result.nodes) : n.tags = {"health", "home"}
    /\ \E n \in Elems(all_nodes) :
         n.tags \cap {"work", "health"} = {} /\ n \notin Elems(result.nodes)

\* ------------------------------------------------------------------ C14
\* C14: the records that survive a query are exactly the records of the
\* collection that satisfy every predicate the query sets (source and tag
\* and from and to); applying the filters in any other order leaves the
\* same records; and the sorted result is the filtered list, sorted.
C14_Conjunction ==
    result.kind = "ok" =>
      LET query == result.spec
          lam == get_query_lambdas(query)
          n == Len(lam)
          Orders == {o \in [1..n -> 1..n] : \A i, j \in 1..n : o[i] = o[j] => i = j}
          All(x) ==
            /\ query.hasSource => source_filter(query, x)
            /\ query.hasTag => tag_filter(query, x)
            /\ query.from_date # NoDate => from_date_filter(query, x)
            /\ query.to_date # NoDate => to_date_filter(query, x)
      IN /\ Elems(result.nodes) = {x \in Elems(all_nodes) : All(x)}
         /\ \A o \in Orders :
              Elems(ApplyFilters([i \in 1..n |-> lam[o[i]]], query, all_nodes))
                = Elems(result.nodes)
         /\ Len(result.nodes) = Len(ApplyFilters(lam, query, all_nodes))

\* a query with two predicates has kept a record, and the collection
\* holds a record that passes the tag predicate alone
C14_Witness ==
    /\ result.kind = "ok"
    /\ result.spec.hasSource /\ result.spec.hasTag
    /\ result.nodes # <<>>
    /\ \E x \in Elems(all_nodes) :
         tag_filter(result.spec, x) /\ ~source_filter(result.spec, x)

\* ------------------------------------------------------------------ C15
\* C15 as stated: on the collection of one task dated 2025-01-01 (day 1)
\* tagged work, one note dated 2025-06-01 (day 2) tagged health and one
\* article without a date tagged work, the query
\* 'tag:work from:2025-01-01 to:2025-12-31' (days 1 to 3) succeeds and
\* returns the task and the article and not the note, the task before the
\* article.
C15_AsStated ==
    LET task == Node(2, "todoist", At(1, 0), {"work"})
        note == Node(1, "obsidian", At(2, 0), {"health"})
        article == Node(5, "instapaper", NoDate, {"work"})
        collection == [EmptyCache EXCEPT !["todoist_tasks"] = <<task>>,
                                         !["obsidian_notes"] = <<note>>,
                                         !["instapaper_articles"] = <<article>>]
        q == <<TagPart(<<"work">>), Blank, FromPart(1), Blank, ToPart(3)>>
    IN (/\ cacheFile = Serialize(collection)
        /\ result.kind # "none"
        /\ result.query = q) =>
          /\ result.kind = "ok"
          /\ result.parts["todoist"] = <<task>>
          /\ result.parts["instapaper"] = <<article>>
          /\ result.parts["obsidian"] = <<>>
          /\ result.output.blocks = <<"todoist", "instapaper">>
          /\ result.output.items["todoist"] = <<2>>
          /\ result.output.items["instapaper"] = <<5>>

\* ------------------------------------------------------------------ C16
\* C16: when one or more tokens of the query string lack a colon or have
\* a key other than source, tag, from and to, the call fails with the one
\* ValueError of from_string, which lists every such token in the order
\* of the string, and no Query is produced; when there is no such token,
\* that error is not raised.
C16_AggregateErrors ==
    result.kind # "none" =>
      LET tokens == SelectSeq(result.query, LAMBDA c : c.key # " ")
          bad == SelectSeq(tokens, LAMBDA c :
                    c.key \notin {"source", "tag", "from", "to"})
      IN /\ bad # <<>> =>
              /\ result.kind = "error"
              /\ result.text = "ValueError"
              /\ result.offending = bad
              /\ result.spec = NoSpec
              /\ result.errors = {}
         /\ bad = <<>> =>
              /\ result.offending = <<>>
              /\ result.text # "ValueError"

\* a string with two offending tokens around a good one has been rejected
C16_Witness ==
    /\ result.kind = "error"
    /\ Len(result.query) = 3
    /\ result.offending = <<result.query[1], result.query[3]>>
    /\ result.query[2].key = "to"

\* ------------------------------------------------------------------ C17
\* C17: every Query the parser returns with both bounds set has
\* from_date <= to_date, and a query string whose from resolves to a
\* later instant than its to is rejected with the range-order error and
\* produces no Query.
C17_RangeOrder ==
    result.kind # "none" =>
      LET tokens == SelectSeq(result.query, LAMBDA c : c.key # " ")
          both == HasPart(tokens, "from") /\ HasPart(tokens, "to")
          f == ParseDate(LastPart(tokens, "from"))
          t == ParseDate(LastPart(tokens, "to"))
      IN /\ (result.spec.from_date # NoDate /\ result.spec.to_date # NoDate) =>
              result.spec.from_date <= result.spec.to_date
         /\ (result.offending = <<>> /\ both /\ f # BadDate /\ t # BadDate) =>
              IF f > t
              THEN /\ result.kind = "error"
                   /\ "order" \in result.errors
                   /\ result.spec = NoSpec
              ELSE "order" \notin result.errors

\* a query whose from is later than its to has been rejected
C17_Witness ==
    /\ result.kind = "error"
    /\ result.errors = {"order"}
    /\ result.query = <<FromPart(2), ToPart(1)>>

\* ------------------------------------------------------------------ C18
\* C18: in every Query the parser returns, a to bound is the last instant
\* of the day its expression resolves to, absolute or relative, and a from
\* bound is the instant its expression resolves to, unchanged; so a
\* record dated at any time of the to day passes the to predicate.
C18_EndOfDay ==
    (result.kind # "none" /\ result.spec # NoSpec) =>
      LET tokens == SelectSeq(result.query, LAMBDA c : c.key # " ")
          f == ParseDate(LastPart(tokens, "from"))
          t == ParseDate(LastPart(tokens, "to"))
      IN /\ HasPart(tokens, "from") => result.spec.from_date = f
         /\ ~HasPart(tokens, "from") => result.spec.from_date = NoDate
         /\ ~HasPart(tokens, "to") => result.spec.to_date = NoDate
         /\ HasPart(tokens, "to") =>
              /\ DayOf(result.spec.to_date) = DayOf(t)
              /\ DayOf(result.spec.to_date + 1) = DayOf(t) + 1
              /\ result.kind = "ok" =>
                   \A n \in Elems(all_nodes) :
                     (/\ n.date # NoDate
                      /\ DayOf(n.date) = DayOf(t)
                      /\ result.spec.hasSource => source_filter(result.spec, n)
                      /\ result.spec.hasTag => tag_filter(result.spec, n)
                      /\ HasPart(tokens, "from") => n.date >= f) =>
                        n \in Elems(result.nodes)

\* a record dated during the to day, after 00:00, is in the result
C18_Witness ==
    /\ result.kind = "ok"
    /\ result.query = <<ToPart(3)>>
    /\ \E n \in Elems(result.nodes) : n.date = At(3, 1)

\* ------------------------------------------------------------------ C19
\* C19: for every record collection and every accepted query there is a
\* rendered output; it holds the query line, so it is never empty; it
\* holds the "No results found" block exactly when all five partitions are
\* empty, and it holds the block of a variant exactly when that variant's
\* partition is not empty.
C19_AsStated ==
    (result.kind # "none" /\ result.offending = <<>> /\ result.errors = {}) =>
      LET r == run(result.query, all_nodes)
      IN /\ result.kind = "ok"
         /\ result.output.header
         /\ result.output.sentinel <=> \A s \in ValidSources : r.parts[s] = <<>>
         /\ result.output.blocks =
              SelectSeq(TemplateOrder, LAMBDA s : r.parts[s] # <<>>)

\* ------------------------------------------------------------------ C20
\* C20: get_query_result always returns a string: when parsing or running
\* the query raises, the string is the error message with the text of the
\* exception and nothing of the query's result (no records, no partition,
\* no rendered block); otherwise it is the prompt of run().
C20_NeverThrows ==
    result.kind # "none" =>
      LET r == run(result.query, all_nodes)
      IN /\ result.kind \in {"ok", "error"}
         /\ r.raised # "none" =>
              /\ result.kind = "error"
              /\ result.text = r.raised
              /\ result.nodes = <<>>
              /\ result.parts = NoParts
              /\ result.output = NoOutput
         /\ r.raised = "none" =>
              /\ result.kind = "ok"
              /\ result.text = "none"
              /\ result.output = r.output

\* an exception raised while rendering, after filtering and sorting, came
\* back as an error message
C20_Witness ==
    /\ result.kind = "error"
    /\ result.text = "UndefinedError"
    /\ result.offending = <<>> /\ result.errors = {}
    /\ all_nodes # <<>>

\* ------------------------------------------------------------------ C21
\* the instant the claim gives for a relative expression: now plus or,
\* for "-", minus the number times 1, 7, 30 or 365 days
C21_Instant(c) ==
    Now + (IF c.sign = "-" THEN 0 - 1 ELSE 1) * c.day * DayParts
          * (IF c.unit = "d" THEN 1 ELSE IF c.unit = "w" THEN 7
             ELSE IF c.unit = "m" THEN 30 ELSE 365)

\* what a query shows of the parsing of its from and to values, for every
\* relative expression or, with in_range_only, for those whose instant
\* lies in the range of datetime: such an
\* expression parses without an error and gives C21_Instant (for to: its
\* day, the bound being moved to the end of that day), "now" gives now, a
\* date gives its midnight, and a value of neither grammar rejects the query
C21_Parsed(in_range_only) ==
    (result.kind # "none" /\ result.offending = <<>>) =>
      LET tokens == SelectSeq(result.query, LAMBDA c : c.key # " ")
          Yields(key, t) ==
              /\ (key \o "_date") \notin result.errors
              /\ result.spec # NoSpec =>
                   IF key = "from" THEN result.spec.from_date = t
                   ELSE DayOf(result.spec.to_date) = DayOf(t)
      IN \A key \in {"from", "to"} :
           HasPart(tokens, key) =>
             LET c == LastPart(tokens, key)
                 required == in_range_only =>
                               DayOf(C21_Instant(c)) \in MinDay..MaxDay
             IN /\ (c.rel /\ c.unit # "now" /\ required) =>
                     /\ Yields(key, C21_Instant(c))
                     /\ Len(tokens) = 1 => result.spec # NoSpec
                /\ (c.rel /\ c.unit = "now") => Yields(key, Now)
                /\ (~c.rel /\ c.day # BadDate) => Yields(key, At(c.day, 0))
                /\ (~c.rel /\ c.day = BadDate) =>
                     result.kind = "error" /\ result.spec = NoSpec

\* C21 as stated: every relative expression of sign, number and unit
\* parses to now plus or minus the number times 1, 7, 30 or 365 days.
C21_AsStated == C21_Parsed(FALSE)

\* C21, amended: that holds for the expressions whose instant datetime can
\* represent; for the others parsing raises OverflowError and the query
\* fails with it.
C21_RelativeDates ==
    /\ C21_Parsed(TRUE)
    /\ (result.kind # "none" /\ result.offending = <<>>) =>
         LET tokens == SelectSeq(result.query, LAMBDA c : c.key # " ")
         IN \A key \in {"from", "to"} :
              (/\ HasPart(tokens, key)
               /\ LastPart(tokens, key).rel
               /\ LastPart(tokens, key).unit # "now"
               /\ DayOf(C21_Instant(LastPart(tokens, key))) \notin MinDay..MaxDay) =>
                 /\ result.kind = "error"
                 /\ result.text = "OverflowError"
                 /\ result.spec = NoSpec

\* "-7d" was parsed to seven days before now
C21_Witness ==
    /\ result.query = <<FromExpr("-", 7, "d"), ToExpr("", 1, "m")>>
    /\ result.spec # NoSpec
    /\ result.spec.from_date = Now - 7 * DayParts

\* ------------------------------------------------------------------ C30
\* C30: the order of the bounds is checked on to as parsed, before it is
\* moved to the end of its day: a query with both bounds and no other
\* fault is accepted exactly when the from instant is not later than the
\* to instant; a from later than to but within to's day is rejected.
C30_OrderBeforeExtension ==
    result.kind # "none" =>
      LET tokens == SelectSeq(result.query, LAMBDA c : c.key # " ")
          f == ParseDate(LastPart(tokens, "from"))
          t == ParseDate(LastPart(tokens, "to"))
      IN (/\ result.offending = <<>>
          /\ HasPart(tokens, "from") /\ HasPart(tokens, "to")
          /\ {f, t} \cap {BadDate, OutOfRange} = {}
          /\ "source" \notin result.errors) =>
            /\ result.spec # NoSpec <=> f <= t
            /\ (f > t /\ DayOf(f) = DayOf(t)) =>
                 /\ result.kind = "error"
                 /\ result.errors = {"order"}
                 /\ f <= EndOfDay(t)

\* from:now with to: today's date was rejected
C30_Witness ==
    /\ result.query = <<FromRel(0), ToPart(Today)>>
    /\ result.kind = "error"
    /\ result.errors = {"order"}
    /\ ParseDate(FromRel(0)) <= EndOfDay(ParseDate(ToPart(Today)))

\* ------------------------------------------------------------------ C24
\* C24: the five per-variant sequences split the filtered and sorted
\* sequence without loss: the sequence of a variant holds exactly the
\* records of that variant, each once, in the order of the sorted
\* sequence, and they are rendered in that order.
C24_AsStated ==
    result.kind = "ok" =>
      \A s \in ValidSources :
        LET ofVariant == SelectSeq(result.nodes, LAMBDA n : n.data_source = s)
        IN /\ result.parts[s] = ofVariant
           /\ result.output.items[s] =
                [i \in 1..Len(ofVariant) |-> ofVariant[i].id]

\* ------------------------------------------------------------------ C28
\* C28: over a fixed loaded collection a query returns what it returns in
\* a fresh process, whichever queries ran before it: the same filtered and
\* sorted sequence, hence the same per-variant sequences, and the same
\* output; the sort in place of the kept list by a query without filter,
\* being stable, changes no later result.
C28_HistoryIndependent ==
    result.kind # "none" =>
      LET fresh == get_query_result(result.query,
                                    run(result.query, GetAllNodes(cacheFile)))
      IN /\ result.kind = fresh.kind
         /\ result.nodes = fresh.nodes
         /\ result.parts = fresh.parts
         /\ result.output = fresh.output

\* a query with a filter was answered from a list that an earlier query
\* had reordered, and its result holds two records of equal or absent date
C28_Witness ==
    /\ cached
    /\ all_nodes # GetAllNodes(cacheFile)
    /\ result.kind = "ok"
    /\ get_query_lambdas(result.spec) # <<>>
    /\ \E i, j \in 1..Len(result.nodes) :
         i < j /\ result.nodes[i].date = result.nodes[j].date

\* ------------------------------------------------------------------ C23
\* C23: a step of the query engine, a query that succeeds or fails or the
\* building of the help text, leaves the cache file as it is and neither
\* takes nor releases the cache lock, also while a refresh holds the lock
\* or is writing the file.
C23_ReadOnly ==
    [][(cached' # cached \/ all_nodes' # all_nodes \/ result' # result) =>
         /\ cacheFile' = cacheFile
         /\ flockOwner' = flockOwner
         /\ lock_file' = lock_file
         /\ pc' = pc]_vars

\* a query was answered while the refresh held the lock, from a cache file
\* that could not be read
C23_Witness ==
    /\ flockOwner = Refresher
    /\ cacheFile = Garbage
    /\ cached
    /\ result.kind = "ok"

\* ------------------------------------------------------------------ C25
\* C25: the query path loads the cache file only when the process holds no
\* list yet; from then on the list is kept, reordered at most by the sort
\* of a query without filter, whatever happens to the cache file, and
\* every query is answered from the kept list.
C25_Memoized ==
    [][/\ (cached /\ cached') =>
            all_nodes' \in {all_nodes, SortNodes(all_nodes)}
       /\ (~cached /\ cached') =>
            all_nodes' \in {GetAllNodes(cacheFile),
                            SortNodes(GetAllNodes(cacheFile))}
       /\ (cached /\ result' # result /\ result'.kind # "none") =>
            result' = get_query_result(result'.query,
                                       run(result'.query, all_nodes))]_vars

\* the server holds a record that the cache file no longer holds, and has
\* answered a query with it
C25_Witness ==
    /\ cached
    /\ all_nodes # <<>>
    /\ cacheFile.kind = "json"
    /\ GetAllNodes(cacheFile) = <<>>
    /\ result.kind = "ok"
    /\ result.nodes = all_nodes

\* ------------------------------------------------------------------ C27
\* C27: in a refresh every collection that no adapter call of the run
\* assigned (the collections of the sources the list does not name among
\* them) stays as load_cache returned it and is stored so by a save that
\* succeeds; an entry of the list that assigns nothing (a name that is no
\* source) changes no collection and leaves the loop running towards the
\* save.
C27_PartialRefreshFrame ==
    /\ [](\A p \in Procs :
            pc[p] \in {"update", "write"} =>
              \A s \in Slices :
                fetched[p][s] = NotFetched => cache[p][s] = loaded[p][s])
    /\ [][\A p \in Procs :
            /\ (pc[p] = "write" /\ saveResult'[p] = "ok") =>
                 \A s \in Slices :
                   fetched[p][s] = NotFetched =>
                     cacheFile'.doc[s] = loaded[p][s]
            /\ (pc[p] = "update" /\ todo'[p] = todo[p] - 1
                /\ fetched'[p] = fetched[p]
                /\ failing'[p] = NoFailure) =>
                 /\ cache'[p] = cache[p]
                 /\ pc'[p] = "update"
                 /\ exc'[p] = "none"]_vars

\* a run that refreshed the health data only is about to store the tasks
\* it loaded
C27_Witness ==
    \E p \in Procs :
      /\ pc[p] = "write"
      /\ todo[p] = 0
      /\ fetched[p]["health_data"] # NotFetched
      /\ fetched[p]["todoist_tasks"] = NotFetched
      /\ loaded[p]["todoist_tasks"] # <<>>
      /\ cache[p]["todoist_tasks"] = loaded[p]["todoist_tasks"]
      /\ cache[p]["health_data"] # loaded[p]["health_data"]

\* ------------------------------------------------------------------ C29
\* C29: when opening or writing the cache file fails inside save_cache, no
\* exception leaves update_cache_for_sources: the run goes on to __exit__,
\* which releases the lock, and main() ends without a failure, whatever
\* the file holds then.
C29_FailedSaveSilent ==
    \A p \in Procs :
      saveResult[p] = "error" =>
        /\ exc[p] = "none"
        /\ pc[p] \in {"exit", "done"}
        /\ pc[p] = "done" =>
             /\ released[p] # "no"
             /\ ~lock_file[p]
             /\ flockOwner # p

\* a run has ended without failure and with the lock released after its
\* save left an unreadable cache file
C29_Witness ==
    \E p \in Procs :
      /\ pc[p] = "done"
      /\ saveResult[p] = "error"
      /\ released[p] = "ok"
      /\ flockOwner = NoOwner
      /\ cacheFile = Garbage

\* the input is malformed: a row whose date cell no format parses, a file
\* that fails to parse, a file with Templater text
Malformed(kind, input) ==
    IF kind = "health" THEN TryFormats(input, 1) = BadDate
    ELSE ~input.parses \/ input.placeholder # "none"

\* C22: once the health or the notes adapter has run on a batch, no record
\* it produced is the record of a malformed input of the batch, and for
\* every malformed input the records produced are, in number, content and
\* order, those the adapter produces for the batch without that input
C22_Isolated ==
    (batch.kind \in {"health", "obsidian"} /\ produced # NoProduct) =>
        \A i \in 1..Len(batch.inputs) :
            LET input == batch.inputs[i]
                others == SubSeq(batch.inputs, 1, i - 1)
                            \o SubSeq(batch.inputs, i + 1, Len(batch.inputs))
                record == IF batch.kind = "health"
                          THEN HealthNode(input, TryFormats(input, 1))
                          ELSE ObsidianNode(input)
                alone == IF batch.kind = "health"
                         THEN get_all_health_data(others)
                         ELSE get_all_nodes(others)
            IN  Malformed(batch.kind, input) =>
                    /\ \A k \in 1..Len(produced) : produced[k] # record
                    /\ produced = alone

\* C22 witness: a row with an unreadable date between two good rows, and
\* the two good rows' records produced
C22_Witness ==
    /\ batch.kind = "health"
    /\ Len(batch.inputs) = 3
    /\ ~Malformed("health", batch.inputs[1])
    /\ batch.inputs[2].format = "junk"
    /\ ~Malformed("health", batch.inputs[3])
    /\ produced # NoProduct
    /\ Len(produced) = 2

\* C26 as stated: the tags of a produced task record hold every label of
\* the task and, when the project id resolves, the project's name, and no
\* tag twice
C26_AsStated ==
    (batch.kind = "todoist" /\ produced # NoProduct) =>
        LET task == batch.inputs[1]
            tags == produced[1].tags
            project_name == get_project_name(task, batch.projects)
        IN  /\ Elems(task.labels) \subseteq Elems(tags)
            /\ project_name # NoName => project_name \in Elems(tags)
            /\ Cardinality(Elems(tags)) = Len(tags)

====
